---- MODULE Spec2Model ----
(***************************************************************************)
(* MiniKanbanApp backend: the project and task stores and the REST         *)
(* endpoints over them (ProjectsController / ProjectsService,              *)
(* TasksController / TasksService).  One action per endpoint; each action  *)
(* is the controller handler together with the service method it calls.    *)
(* Task fields not modelled: description, createdBy, updatedAt.            *)
(***************************************************************************)
EXTENDS Integers, Sequences, FiniteSets, TLC

(* ------------------------------ bounds --------------------------------- *)
\* number of projects / tasks ever created (ObjectIds are never reused)
MaxProjects == 2
MaxTasks == 1
\* tasks ever created in the specifications of the task data (lists, summary, export)
MaxDataTasks == 2
\* tasks ever created in the specification of pagination
MaxPageTasks == 3
\* last value of the server clock
MaxTime == 2

(* ------------------------------ users ---------------------------------- *)
\* The user collection: one seeded admin and two registered members.
Users == {"a1", "m1", "m2"}

ADMIN == "admin"
MEMBER == "member"

role(u) == IF u = "a1" THEN ADMIN ELSE MEMBER

NoUser == "none"      \* an undefined assignee
Absent == "absent"    \* an optional DTO field that is not sent (undefined)
Null == "null"        \* a DTO field sent as JSON null
\* the same two for a field that holds text (a sequence of characters)
Undefined == <<"undefined">>
NullText == <<"null">>
NoDate == 0           \* an undefined dueDate (clock values start at 1)

PIDs == 1..MaxProjects
TIDs == 1..MaxTasks

(* ------------------- identifiers as JavaScript values ------------------ *)
\* A user id reaches a service either as a hex string or as an ObjectId.
IdString(u) == [kind |-> "string", id |-> u]
ObjectId(u) == [kind |-> "ObjectId", id |-> u]

\* x.toString(): the hex string of an ObjectId, a string unchanged
toString(x) == IdString(x.id)

\* a === b where a is a string: true only for a string with the same text
StrictEquals(a, b) == a.kind = "string" /\ b.kind = "string" /\ a.id = b.id

\* req.user is the user document loaded for the bearer token: _id is an ObjectId
ReqUserId(u) == ObjectId(u)

\* RolesGuard with @Roles(UserRole.ADMIN)
RolesGuard(u) == role(u) = ADMIN

(* --------------------------- enumerations ------------------------------ *)
TaskStatus == {"todo", "in_progress", "done"}
TaskPriority == {"low", "medium", "high"}

(* ------------------------------- text ---------------------------------- *)
\* Request and response text is a sequence of characters.
DQUOTE == "dquote"     \* the character "
NEWLINE == "newline"   \* the character \n
COMMA == ","
Digits == {"0", "1", "2", "3", "4", "5", "6", "7", "8", "9"}

digit(c) == CHOOSE n \in 0..9 : ToString(n) = c

RECURSIVE digitsPrefix(_)
digitsPrefix(s) ==
  IF s = <<>> \/ Head(s) \notin Digits THEN <<>>
  ELSE <<Head(s)>> \o digitsPrefix(Tail(s))

RECURSIVE decimal(_, _)
decimal(acc, s) == IF s = <<>> THEN acc ELSE decimal(10 * acc + digit(Head(s)), Tail(s))

allDigits(s) == \A i \in 1..Len(s) : s[i] \in Digits

\* parseInt(x): <<n>> for the leading integer of the text, <<>> for NaN
parseInt(x) ==
  IF x = <<>> THEN <<>>
  ELSE LET neg == Head(x) = "-"
           body == IF Head(x) \in {"-", "+"} THEN Tail(x) ELSE x
           ds == digitsPrefix(body)
       IN IF ds = <<>> THEN <<>>
          ELSE <<IF neg THEN 0 - decimal(0, ds) ELSE decimal(0, ds)>>

\* parseInt(x) || dflt: NaN and 0 are falsy
OrDefault(n, dflt) == IF n = <<>> \/ n = <<0>> THEN dflt ELSE n[1]

\* @IsNumberString(): an optional sign, digits, at most one decimal point
\* followed by digits
IsNumberString(x) ==
  /\ x # <<>>
  /\ LET body == IF Head(x) \in {"-", "+"} THEN Tail(x) ELSE x
         dots == {i \in 1..Len(body) : body[i] = "."}
     IN \/ body # <<>> /\ allDigits(body)
        \/ \E i \in dots :
             /\ allDigits(SubSeq(body, 1, i - 1))
             /\ i < Len(body)
             /\ allDigits(SubSeq(body, i + 1, Len(body)))

\* new Date(text) of an ISO date string, and date.toISOString(); a date is the
\* number of its day
Date(text) == decimal(0, text)
toISOString(d) == <<ToString(d)>>

\* the e-mail address of a seeded account
Email(u) == <<u, "@example.com">>

(* ------------------------------ state ---------------------------------- *)
VARIABLES
  projects,   \* project collection: id -> [key, members, createdBy]
  tasks,      \* task collection: id -> [projectId, title, status, priority,
              \*                         assignee, dueDate, createdAt]
  nProjects,  \* projects created so far
  nTasks,     \* tasks created so far
  now,        \* the server clock
  last,       \* the request served last and its response
  users,      \* user collection: id -> [email, role]
  inflight,   \* requests between two of their awaited calls
  alert,      \* a mounted useAlert hook of the frontend
  tasksPage   \* the Tasks page of the frontend

vars == <<projects, tasks, nProjects, nTasks, now, last, users, inflight, alert, tasksPage>>

\* what the project and task endpoints leave alone
outside == <<users, inflight, alert, tasksPage>>

OK == "ok"
NOT_FOUND == "not_found"      \* NotFoundException, 404
FORBIDDEN == "forbidden"      \* ForbiddenException, 403
BAD_REQUEST == "bad_request"  \* a DTO constraint is violated, 400
SERVER_ERROR == "error"       \* an error that is no HttpException, 500

NoQuery ==
  [status |-> Absent, assignee |-> Absent, priority |-> Absent,
   dueFrom |-> Undefined, dueTo |-> Undefined, page |-> Undefined, limit |-> Undefined]

Response(op, u, p, t, res, out) ==
  [op |-> op, user |-> u, pid |-> p, tid |-> t, res |-> res, out |-> out,
   query |-> NoQuery]

\* the accounts of the seed script and of the tests
SeedUsers == [u \in Users |-> [email |-> Email(u), role |-> role(u)]]

\* no useAlert hook is mounted; the Tasks page is not rendered
Unmounted == [mounted |-> FALSE]
NotRendered == [rendered |-> FALSE]

Init ==
  /\ projects = <<>>
  /\ tasks = <<>>
  /\ nProjects = 0
  /\ nTasks = 0
  /\ now = 1
  /\ last = Response("init", "a1", 0, 0, OK, {})
  /\ users = SeedUsers
  /\ inflight = {}
  /\ alert = Unmounted
  /\ tasksPage = NotRendered

(* --------------------------- request inputs ---------------------------- *)
\* member / user id arrays sent in a body
UserIdLists == {<<>>} \cup {<<u>> : u \in Users} \cup {<<"m1", "m2">>}

\* project keys: K1, K2, ...
Key(n) == <<"K", ToString(n)>>
\* every new project is given a key that no request has used before
FreshKey == Key(nProjects + 1)

CreateProjectDtos == [key : {FreshKey}, members : UserIdLists]
\* key and members are optional in UpdateProjectDto
UpdateProjectDtos ==
  {[key |-> Undefined, hasMembers |-> FALSE, members |-> <<>>]}
    \cup [key : {Undefined}, hasMembers : {TRUE}, members : UserIdLists]

CreateTaskDtos ==
  [title : {<<"a">>}, status : {Absent}, priority : {Absent},
   assignee : {Absent} \cup Users, dueDate : {Undefined}]
\* an update either carries a new title and status or neither
UpdateTaskDtos ==
  [title : {Undefined}, status : {Absent}, priority : {Absent},
   assignee : {Absent} \cup Users, dueDate : {Undefined}]
    \cup [title : {<<"b">>}, status : {"in_progress"}, priority : {Absent},
          assignee : {Absent} \cup Users, dueDate : {Undefined}]

(* ---------------------------- validation ------------------------------- *)
\* @IsOptional(): null and undefined pass every other constraint of the field
IsOptional(v) == v = Absent \/ v = Null
IsOptionalText(v) == v = Undefined \/ v = NullText
IsEnum(v, enum) == v \in enum
\* @IsDateString(): the text of a date
IsDateString(v) == v # <<>> /\ allDigits(v)
\* @IsMongoId(): the hex text of an ObjectId; every user id is one
IsMongoId(v) == v \in Users
\* @IsString(): any text
IsString(v) == v # Undefined /\ v # NullText
\* @IsNotEmpty() @IsString()
IsNotEmptyString(v) == IsString(v) /\ v # <<>>

\* CreateTaskDto
ValidCreateTaskDto(dto) ==
  /\ IsNotEmptyString(dto.title)
  /\ IsOptional(dto.status) \/ IsEnum(dto.status, TaskStatus)
  /\ IsOptional(dto.priority) \/ IsEnum(dto.priority, TaskPriority)
  /\ IsOptional(dto.assignee) \/ IsMongoId(dto.assignee)
  /\ IsOptionalText(dto.dueDate) \/ IsDateString(dto.dueDate)

\* UpdateTaskDto
ValidUpdateTaskDto(dto) ==
  /\ IsOptionalText(dto.title) \/ IsString(dto.title)
  /\ IsOptional(dto.status) \/ IsEnum(dto.status, TaskStatus)
  /\ IsOptional(dto.priority) \/ IsEnum(dto.priority, TaskPriority)
  /\ IsOptional(dto.assignee) \/ IsMongoId(dto.assignee)
  /\ IsOptionalText(dto.dueDate) \/ IsDateString(dto.dueDate)

\* QueryTasksDto
ValidQueryTasksDto(query) ==
  /\ IsOptional(query.status) \/ IsEnum(query.status, TaskStatus)
  /\ IsOptional(query.assignee) \/ IsMongoId(query.assignee)
  /\ IsOptional(query.priority) \/ IsEnum(query.priority, TaskPriority)
  /\ IsOptionalText(query.dueFrom) \/ IsDateString(query.dueFrom)
  /\ IsOptionalText(query.dueTo) \/ IsDateString(query.dueTo)
  /\ IsOptionalText(query.page) \/ IsNumberString(query.page)
  /\ IsOptionalText(query.limit) \/ IsNumberString(query.limit)

(* ----------------------------- helpers --------------------------------- *)
\* project.members.some(member => member.toString() === userId)
isMember(project, userId) ==
  \E i \in 1..Len(project.members) :
    StrictEquals(toString(ObjectId(project.members[i])), userId)

\* mutant: the exists query without its projectId condition
hasTasksInProject_anyProject(projectId, userId) ==
  \E t \in DOMAIN tasks : tasks[t].assignee = userId.id

\* taskModel.exists({ projectId, assignee: new Types.ObjectId(userId) })
hasTasksInProject(projectId, userId) ==
  \E t \in DOMAIN tasks :
    /\ tasks[t].projectId = projectId
    /\ tasks[t].assignee = userId.id

\* mutant: $push in place of $addToSet
addToSet_push(members, ids) == members \o ids

\* $addToSet: { members: { $each: memberIds } }
RECURSIVE addToSet(_, _)
addToSet(members, ids) ==
  IF ids = <<>> THEN members
  ELSE LET m == IF \E i \in 1..Len(members) : members[i] = Head(ids)
                THEN members ELSE Append(members, Head(ids))
       IN addToSet(m, Tail(ids))

\* $pull: { members: { $in: memberIds } }
pull(members, ids) ==
  SelectSeq(members, LAMBDA m : ~ \E i \in 1..Len(ids) : ids[i] = m)

Put(f, k, v) == [x \in DOMAIN f \cup {k} |-> IF x = k THEN v ELSE f[x]]
Drop(f, k) == [x \in DOMAIN f \ {k} |-> f[x]]

\* mutant: no unique index on Project.key
duplicateKey_noIndex(key, id) == FALSE

\* the unique index on Project.key: another document already holds the key
\* (a key that is null is a value of the index like any other)
duplicateKey(key, id) == \E p \in DOMAIN projects \ {id} : projects[p].key = key

(* ===================== ProjectsService / Controller ==================== *)
\* ProjectsService.create: key and members from the DTO (no members when
\* absent), creator recorded in createdBy only
ProjectsService_create(dto, userId) ==
  [key |-> dto.key, members |-> dto.members, createdBy |-> userId.id]

\* POST /projects  (@Roles(ADMIN)); project.save() fails on a key that another
\* project holds and the error is thrown on
ProjectsController_create(u, dtos) ==
  /\ UNCHANGED outside
  /\ IF ~ RolesGuard(u)
     THEN /\ last' = Response("createProject", u, 0, 0, FORBIDDEN, {})
          /\ UNCHANGED <<projects, tasks, nProjects, nTasks, now>>
     ELSE /\ nProjects < MaxProjects
          /\ \E dto \in dtos :
             LET id == nProjects + 1 IN
             IF duplicateKey(dto.key, id)
             THEN /\ last' = Response("createProject", u, 0, 0, SERVER_ERROR, {})
                  /\ UNCHANGED <<projects, nProjects>>
             ELSE /\ projects' = Put(projects, id, ProjectsService_create(dto, ReqUserId(u)))
                  /\ nProjects' = id
                  /\ last' = Response("createProject", u, id, 0, OK, {})
          /\ UNCHANGED <<tasks, nTasks, now>>

\* mutant: the query without its tasks-assigned branch
ProjectsService_findAll_membersOnly(userId, userRole) ==
  IF userRole = ADMIN THEN DOMAIN projects
  ELSE {p \in DOMAIN projects :
          \E i \in 1..Len(projects[p].members) : projects[p].members[i] = userId.id}

\* ProjectsService.findAll: the ids of the projects returned
ProjectsService_findAll(userId, userRole) ==
  IF userRole = ADMIN THEN DOMAIN projects
  ELSE LET tasksWithUser ==
             {tasks[t].projectId : t \in {x \in DOMAIN tasks : tasks[x].assignee = userId.id}}
       IN {p \in DOMAIN projects :
             \/ \E i \in 1..Len(projects[p].members) : projects[p].members[i] = userId.id
             \/ p \in tasksWithUser}

\* GET /projects
ProjectsController_findAll(u) ==
  /\ UNCHANGED outside
  /\ /\ last' = Response("listProjects", u, 0, 0, OK,
                         ProjectsService_findAll(toString(ReqUserId(u)), role(u)))
     /\ UNCHANGED <<projects, tasks, nProjects, nTasks, now>>

\* ProjectsService.findOne: the outcome
ProjectsService_findOne(id, userId, userRole) ==
  IF id \notin DOMAIN projects THEN NOT_FOUND
  ELSE IF userRole # ADMIN
          /\ ~ isMember(projects[id], userId)
          /\ ~ hasTasksInProject(id, userId)
       THEN FORBIDDEN
       ELSE OK

\* GET /projects/:id
ProjectsController_findOne(u, id) ==
  /\ UNCHANGED outside
  /\ /\ last' = Response("getProject", u, id, 0,
                         ProjectsService_findOne(id, toString(ReqUserId(u)), role(u)), {})
     /\ UNCHANGED <<projects, tasks, nProjects, nTasks, now>>

\* ProjectsService.update: the outcome
ProjectsService_update(id, userRole) ==
  IF userRole # ADMIN THEN FORBIDDEN
  ELSE IF id \notin DOMAIN projects THEN NOT_FOUND
  ELSE OK

\* the document findByIdAndUpdate leaves: the fields the DTO carries replaced
updatedProject(project, dto) ==
  [key       |-> IF dto.key = Undefined THEN project.key ELSE dto.key,
   members   |-> IF dto.hasMembers THEN dto.members ELSE project.members,
   createdBy |-> project.createdBy]

\* PATCH /projects/:id  (@Roles(ADMIN)); findByIdAndUpdate fails on a key that
\* another project holds
ProjectsController_update(u, id, dtos) ==
  /\ UNCHANGED outside
  /\ LET res == IF ~ RolesGuard(u) THEN FORBIDDEN
                ELSE ProjectsService_update(id, role(u)) IN
     /\ IF res = OK
        THEN \E dto \in dtos :
               IF dto.key # Undefined /\ duplicateKey(dto.key, id)
               THEN /\ projects' = projects
                    /\ last' = Response("updateProject", u, id, 0, SERVER_ERROR, {})
               ELSE /\ projects' = [projects EXCEPT ![id] = updatedProject(@, dto)]
                    /\ last' = Response("updateProject", u, id, 0, OK, {})
        ELSE /\ projects' = projects
             /\ last' = Response("updateProject", u, id, 0, res, {})
     /\ UNCHANGED <<tasks, nProjects, nTasks, now>>

\* ProjectsService.remove: the outcome
ProjectsService_remove(id, userRole) ==
  IF userRole # ADMIN THEN FORBIDDEN
  ELSE IF id \notin DOMAIN projects THEN NOT_FOUND
  ELSE OK

\* mutant: a deletion that takes the tasks of the project with it
ProjectsController_remove_cascade(u, id) ==
  /\ UNCHANGED outside
  /\ LET res == IF ~ RolesGuard(u) THEN FORBIDDEN
                ELSE ProjectsService_remove(id, role(u)) IN
     /\ projects' = IF res = OK THEN Drop(projects, id) ELSE projects
     /\ tasks' = IF res = OK
                 THEN [t \in {x \in DOMAIN tasks : tasks[x].projectId # id} |-> tasks[t]]
                 ELSE tasks
     /\ last' = Response("deleteProject", u, id, 0, res, {})
     /\ UNCHANGED <<nProjects, nTasks, now>>

\* DELETE /projects/:id  (@Roles(ADMIN)); the tasks of the project stay
ProjectsController_remove(u, id) ==
  /\ UNCHANGED outside
  /\ LET res == IF ~ RolesGuard(u) THEN FORBIDDEN
                ELSE ProjectsService_remove(id, role(u)) IN
     /\ projects' = IF res = OK THEN Drop(projects, id) ELSE projects
     /\ last' = Response("deleteProject", u, id, 0, res, {})
     /\ UNCHANGED <<tasks, nProjects, nTasks, now>>

\* ProjectsService.addMembers: the outcome
ProjectsService_addMembers(id, userRole) ==
  IF userRole # ADMIN THEN FORBIDDEN
  ELSE IF id \notin DOMAIN projects THEN NOT_FOUND
  ELSE OK

\* POST /projects/:id/members  (@Roles(ADMIN))
ProjectsController_addMembers(u, id, lists) ==
  /\ UNCHANGED outside
  /\ LET res == IF ~ RolesGuard(u) THEN FORBIDDEN
                ELSE ProjectsService_addMembers(id, role(u)) IN
     /\ IF res = OK
        THEN \E userIds \in lists :
               projects' = [projects EXCEPT ![id].members = addToSet(@, userIds)]
        ELSE projects' = projects
     /\ last' = Response("addMembers", u, id, 0, res, {})
     /\ UNCHANGED <<tasks, nProjects, nTasks, now>>

\* mutant: removeMembers without its role check
ProjectsService_removeMembers_noRoleCheck(id, userRole) ==
  IF id \notin DOMAIN projects THEN NOT_FOUND ELSE OK

\* ProjectsService.removeMembers: the outcome
ProjectsService_removeMembers_check(id, userRole) ==
  IF userRole # ADMIN THEN FORBIDDEN
  ELSE IF id \notin DOMAIN projects THEN NOT_FOUND
  ELSE OK

\* ProjectsService.removeMembers (no route: called on the service)
ProjectsService_removeMembers(u, id, lists) ==
  /\ UNCHANGED outside
  /\ LET res == ProjectsService_removeMembers_check(id, role(u)) IN
     /\ IF res = OK
        THEN \E userIds \in lists :
               projects' = [projects EXCEPT ![id].members = pull(@, userIds)]
        ELSE projects' = projects
     /\ last' = Response("removeMembers", u, id, 0, res, {})
     /\ UNCHANGED <<tasks, nProjects, nTasks, now>>

(* ====================== TasksService / Controller ====================== *)
\* a JavaScript value used as a condition: undefined, null and '' are falsy
truthy(v) == v # Absent /\ v # Null
truthyText(v) == v # Undefined /\ v # NullText /\ v # <<>>

\* mutant: the permission check ahead of the lookup's not-found
projectAccess_permissionFirst(projectId, userId, userRole) ==
  IF userRole # ADMIN
     /\ (projectId \notin DOMAIN projects
         \/ (~ isMember(projects[projectId], userId)
             /\ ~ hasTasksInProject(projectId, userId)))
  THEN FORBIDDEN
  ELSE IF projectId \notin DOMAIN projects THEN NOT_FOUND
  ELSE OK

\* the access rule of create, findAll and exportToCsv
projectAccess(projectId, userId, userRole) ==
  IF projectId \notin DOMAIN projects THEN NOT_FOUND
  ELSE IF userRole # ADMIN
          /\ ~ isMember(projects[projectId], userId)
          /\ ~ hasTasksInProject(projectId, userId)
       THEN FORBIDDEN
       ELSE OK

\* TasksService.create: the outcome
TasksService_create(projectId, userId, userRole) ==
  projectAccess(projectId, userId, userRole)

\* the task document TasksService.create saves: the schema defaults fill the
\* status and priority the DTO does not carry
newTask(projectId, dto, userId) ==
  [projectId |-> projectId,
   title     |-> dto.title,
   status    |-> IF dto.status = Absent THEN "todo" ELSE dto.status,
   priority  |-> IF dto.priority = Absent THEN "medium" ELSE dto.priority,
   assignee  |-> IF truthy(dto.assignee) THEN dto.assignee ELSE NoUser,
   dueDate   |-> IF truthyText(dto.dueDate) THEN Date(dto.dueDate) ELSE NoDate,
   createdAt |-> now]

\* POST /projects/:projectId/tasks; the body is validated before the handler runs
TasksController_create(u, projectId, dtos, cap) ==
  /\ UNCHANGED outside
  /\ LET userId == toString(ReqUserId(u))
         res == TasksService_create(projectId, userId, role(u)) IN
     IF res # OK
     THEN /\ \E valid \in {ValidCreateTaskDto(dto) : dto \in dtos} :
               last' = Response("createTask", u, projectId, 0,
                                IF valid THEN res ELSE BAD_REQUEST, {})
          /\ UNCHANGED <<projects, tasks, nProjects, nTasks, now>>
     ELSE /\ nTasks < cap
          /\ \E dto \in dtos :
               IF ~ ValidCreateTaskDto(dto)
               THEN /\ last' = Response("createTask", u, projectId, 0, BAD_REQUEST, {})
                    /\ UNCHANGED <<tasks, nTasks>>
               ELSE LET id == nTasks + 1 IN
                    /\ tasks' = Put(tasks, id, newTask(projectId, dto, userId))
                    /\ nTasks' = id
                    /\ last' = Response("createTask", u, projectId, id, OK, {})
          /\ UNCHANGED <<projects, nProjects, now>>

tasksOf(projectId) == {t \in DOMAIN tasks : tasks[t].projectId = projectId}

\* mutant: a due-date filter that lets tasks without a due date through
matches_undatedPass(task, projectId, query) ==
  /\ task.projectId = projectId
  /\ truthy(query.status) => task.status = query.status
  /\ truthy(query.assignee) => task.assignee = query.assignee
  /\ truthy(query.priority) => task.priority = query.priority
  /\ (task.dueDate # NoDate /\ truthyText(query.dueFrom))
       => task.dueDate >= Date(query.dueFrom)
  /\ (task.dueDate # NoDate /\ truthyText(query.dueTo))
       => task.dueDate <= Date(query.dueTo)

\* the filter TasksService.findAll builds from the query (without $text)
matches(task, projectId, query) ==
  /\ task.projectId = projectId
  /\ truthy(query.status) => task.status = query.status
  /\ truthy(query.assignee) => task.assignee = query.assignee
  /\ truthy(query.priority) => task.priority = query.priority
  /\ (truthyText(query.dueFrom) \/ truthyText(query.dueTo)) =>
       /\ task.dueDate # NoDate
       /\ truthyText(query.dueFrom) => task.dueDate >= Date(query.dueFrom)
       /\ truthyText(query.dueTo) => task.dueDate <= Date(query.dueTo)

\* sort({ createdAt: -1 }): the orders a sort by creation time, newest first,
\* may return; documents with equal createdAt come in any order
sortByCreatedAtDesc(ids) ==
  {order \in [1..Cardinality(ids) -> ids] :
     /\ \A i, j \in 1..Cardinality(ids) : i # j => order[i] # order[j]
     /\ \A i, j \in 1..Cardinality(ids) :
          i < j => tasks[order[i]].createdAt >= tasks[order[j]].createdAt}

\* Math.ceil(a / b) for b # 0
ceil(a, b) == IF b > 0 THEN (a + b - 1) \div b ELSE 0 - (a \div (0 - b))

abs(n) == IF n < 0 THEN 0 - n ELSE n

\* skip(skip).limit(limit) of a sorted result; a negative limit counts as its
\* absolute value
skipLimit(order, skip, limit) ==
  SubSeq(order, skip + 1, IF skip + abs(limit) < Len(order)
                          THEN skip + abs(limit) ELSE Len(order))

DefaultPage == 1
DefaultLimit == 10

\* TasksService.findAll: the outcome of the access check
TasksService_findAll(projectId, userId, userRole) ==
  projectAccess(projectId, userId, userRole)

\* GET /projects/:projectId/tasks
TasksController_findAll(u, projectId, queries) ==
  /\ UNCHANGED outside
  /\ LET res == TasksService_findAll(projectId, toString(ReqUserId(u)), role(u)) IN
     /\ \E query \in queries :
          LET page == OrDefault(parseInt(query.page), DefaultPage)
              limit == OrDefault(parseInt(query.limit), DefaultLimit)
              skip == (page - 1) * limit
              found == {t \in DOMAIN tasks : matches(tasks[t], projectId, query)}
              total == Cardinality(found)
              request == [Response("listTasks", u, projectId, 0, OK, {})
                            EXCEPT !.query = query]
          IN IF ~ ValidQueryTasksDto(query)
             THEN last' = [request EXCEPT !.res = BAD_REQUEST]
             ELSE IF res # OK
             THEN last' = [request EXCEPT !.res = res]
             ELSE IF skip < 0    \* the store rejects a negative skip
             THEN last' = [request EXCEPT !.res = SERVER_ERROR]
             ELSE \E order \in sortByCreatedAtDesc(found) :
                    last' = [request EXCEPT !.out =
                      [tasks |-> skipLimit(order, skip, limit),
                       pagination |-> [page |-> page, limit |-> limit, total |-> total,
                                       pages |-> ceil(total, limit)]]]
     /\ UNCHANGED <<projects, tasks, nProjects, nTasks, now>>

\* the project a task's populated projectId holds: TRUE when the document exists
populated(task) == task.projectId \in DOMAIN projects

\* TasksService.findOne: the outcome
TasksService_findOne(id, userId, userRole) ==
  IF id \notin DOMAIN tasks THEN NOT_FOUND
  ELSE IF userRole = ADMIN THEN OK
  ELSE IF ~ populated(tasks[id]) THEN SERVER_ERROR   \* null.members
  ELSE IF ~ isMember(projects[tasks[id].projectId], userId) THEN FORBIDDEN
  ELSE OK

pidOf(id) == IF id \in DOMAIN tasks THEN tasks[id].projectId ELSE 0

\* GET /tasks/:id
TasksController_findOne(u, id) ==
  /\ UNCHANGED outside
  /\ /\ last' = Response("getTask", u, pidOf(id), id,
                         TasksService_findOne(id, ReqUserId(u), role(u)), {})
     /\ UNCHANGED <<projects, tasks, nProjects, nTasks, now>>

\* mutant: the member and assignee checks applied to admins too
TasksService_update_noAdminBypass(id, userId, userRole) ==
  IF id \notin DOMAIN tasks THEN NOT_FOUND
  ELSE IF ~ populated(tasks[id]) THEN SERVER_ERROR
  ELSE IF ~ isMember(projects[tasks[id].projectId], userId) THEN FORBIDDEN
  ELSE IF ~ (tasks[id].assignee # NoUser
             /\ StrictEquals(toString(ObjectId(tasks[id].assignee)), userId))
       THEN FORBIDDEN
  ELSE OK

\* TasksService.update: the outcome of the permission check
TasksService_update(id, userId, userRole) ==
  IF id \notin DOMAIN tasks THEN NOT_FOUND
  ELSE IF userRole = ADMIN THEN OK
  ELSE IF ~ populated(tasks[id]) THEN SERVER_ERROR   \* null.members
  ELSE IF ~ isMember(projects[tasks[id].projectId], userId) THEN FORBIDDEN
  ELSE IF ~ (tasks[id].assignee # NoUser
             /\ StrictEquals(toString(ObjectId(tasks[id].assignee)), userId))
       THEN FORBIDDEN
  ELSE OK

\* mutant: assignee and dueDate taken from the DTO as in create
updatedTask_asInCreate(task, dto) ==
  [projectId |-> task.projectId,
   title     |-> IF dto.title = Undefined THEN task.title ELSE dto.title,
   status    |-> IF dto.status = Absent THEN task.status ELSE dto.status,
   priority  |-> IF dto.priority = Absent THEN task.priority ELSE dto.priority,
   assignee  |-> IF truthy(dto.assignee) THEN dto.assignee ELSE NoUser,
   dueDate   |-> IF truthyText(dto.dueDate) THEN Date(dto.dueDate) ELSE NoDate,
   createdAt |-> task.createdAt]

\* the document findByIdAndUpdate leaves: every field the DTO carries is set as
\* sent (a null too; no schema validator and no default runs on an update),
\* assignee and dueDate only when truthy
updatedTask(task, dto) ==
  [projectId |-> task.projectId,
   title     |-> IF dto.title = Undefined THEN task.title ELSE dto.title,
   status    |-> IF dto.status = Absent THEN task.status ELSE dto.status,
   priority  |-> IF dto.priority = Absent THEN task.priority ELSE dto.priority,
   assignee  |-> IF truthy(dto.assignee) THEN dto.assignee ELSE task.assignee,
   dueDate   |-> IF truthyText(dto.dueDate) THEN Date(dto.dueDate) ELSE task.dueDate,
   createdAt |-> task.createdAt]

\* mutant: findByIdAndUpdate is run before the permission check
TasksController_update_writeFirst(u, id, dtos) ==
  /\ UNCHANGED outside
  /\ LET res == TasksService_update(id, ReqUserId(u), role(u)) IN
     /\ \E dto \in dtos :
          IF ~ ValidUpdateTaskDto(dto)
          THEN /\ last' = Response("updateTask", u, pidOf(id), id, BAD_REQUEST, {})
               /\ tasks' = tasks
          ELSE /\ last' = Response("updateTask", u, pidOf(id), id, res, {})
               /\ tasks' = IF id \in DOMAIN tasks
                           THEN [tasks EXCEPT ![id] = updatedTask(@, dto)] ELSE tasks
     /\ UNCHANGED <<projects, nProjects, nTasks, now>>

\* PATCH /tasks/:id; the body is validated before the handler runs
TasksController_update(u, id, dtos) ==
  /\ UNCHANGED outside
  /\ LET res == TasksService_update(id, ReqUserId(u), role(u)) IN
     /\ IF res # OK
        THEN /\ \E valid \in {ValidUpdateTaskDto(dto) : dto \in dtos} :
                  last' = Response("updateTask", u, pidOf(id), id,
                                   IF valid THEN res ELSE BAD_REQUEST, {})
             /\ tasks' = tasks
        ELSE \E dto \in dtos :
               IF ~ ValidUpdateTaskDto(dto)
               THEN /\ last' = Response("updateTask", u, pidOf(id), id, BAD_REQUEST, {})
                    /\ tasks' = tasks
               ELSE /\ last' = Response("updateTask", u, pidOf(id), id, OK, {})
                    /\ tasks' = [tasks EXCEPT ![id] = updatedTask(@, dto)]
     /\ UNCHANGED <<projects, nProjects, nTasks, now>>

\* TasksService.remove: the outcome
TasksService_remove(id, userRole) ==
  IF userRole # ADMIN THEN FORBIDDEN
  ELSE IF id \notin DOMAIN tasks THEN NOT_FOUND
  ELSE OK

\* DELETE /tasks/:id  (@Roles(ADMIN))
TasksController_remove(u, id) ==
  /\ UNCHANGED outside
  /\ LET res == IF ~ RolesGuard(u) THEN FORBIDDEN
                ELSE TasksService_remove(id, role(u)) IN
     /\ tasks' = IF res = OK THEN Drop(tasks, id) ELSE tasks
     /\ last' = Response("deleteTask", u, pidOf(id), id, res, {})
     /\ UNCHANGED <<projects, nProjects, nTasks, now>>

\* mutant: the summary granted by the rule of the task list
TasksService_getProjectSummary_assigneeToo(projectId, userId, userRole) ==
  projectAccess(projectId, userId, userRole)

\* TasksService.getProjectSummary: the outcome of the access check
TasksService_getProjectSummary(projectId, userId, userRole) ==
  IF projectId \notin DOMAIN projects THEN NOT_FOUND
  ELSE IF userRole # ADMIN /\ ~ isMember(projects[projectId], userId) THEN FORBIDDEN
  ELSE OK

\* countDocuments({ projectId, status })
countStatus(projectId, status) ==
  Cardinality({t \in tasksOf(projectId) : tasks[t].status = status})

(* ---- JavaScript numbers: IEEE 754 double precision, round to nearest ---- *)
\* A positive double is n * 2^exp for an integer n whose binary form has at
\* most MantissaBits significant bits; n is written in digits of base Limb,
\* the highest first, and carries its trailing zero bits.  +0 has no digits.
MantissaBits == 53
LimbBits == 18
Limb == 2 ^ LimbBits

Zero == [n |-> <<>>, exp |-> 0]

Front(s) == SubSeq(s, 1, Len(s) - 1)

\* the number of bits of x > 0
bitLength(x) == CHOOSE l \in 1..30 : 2 ^ (l - 1) <= x /\ x < 2 ^ l

\* the digits with the carry of the lowest digit taken upwards
RECURSIVE carried(_)
carried(limbs) ==
  IF limbs = <<>> THEN <<>>
  ELSE LET low == limbs[Len(limbs)] IN
       IF low < Limb THEN limbs
       ELSE IF Len(limbs) = 1 THEN <<low \div Limb, low % Limb>>
       ELSE carried([Front(limbs) EXCEPT ![Len(limbs) - 1] = @ + low \div Limb])
              \o <<low % Limb>>

\* the double nearest to (limbs + f) * 2^exp, where 0 <= f < 1 and sticky
\* tells f > 0: between 1 and LimbBits low bits are dropped, ties go to the
\* even significand
nearest(limbs, exp, sticky) ==
  LET len == Len(limbs)
      drop == LimbBits * (len - 1) + bitLength(limbs[1]) - MantissaBits
      low == limbs[len] % (2 ^ drop)
      half == 2 ^ (drop - 1)
      lastKept == IF drop < LimbBits THEN (limbs[len] \div (2 ^ drop)) % 2
                  ELSE limbs[len - 1] % 2
      up == low > half \/ (low = half /\ (sticky \/ lastKept = 1))
  IN [n |-> carried([limbs EXCEPT ![len] = @ - low + (IF up THEN 2 ^ drop ELSE 0)]),
      exp |-> exp]

RECURSIVE leadingShift(_, _)
leadingShift(a, b) == IF a >= b THEN 0 ELSE 1 + leadingShift(2 * a, b)

\* a / b for integers 0 <= a <= b, 0 < b < 2^12: long division to
\* MantissaBits + 1 bits, then rounding
divide(a, b) ==
  IF a = 0 THEN Zero
  ELSE LET k == leadingShift(a, b)
           d2 == a * (2 ^ k) * (2 ^ (LimbBits - 1))
           d1 == (d2 % b) * Limb
           d0 == (d1 % b) * Limb
       IN nearest(<<d2 \div b, d1 \div b, d0 \div b>>,
                  0 - (3 * LimbBits - 1) - k,
                  d0 % b # 0)

\* the digits of limbs * n + carry
RECURSIVE timesLimbs(_, _, _)
timesLimbs(limbs, n, carry) ==
  IF limbs = <<>> THEN (IF carry = 0 THEN <<>> ELSE <<carry>>)
  ELSE LET v == limbs[Len(limbs)] * n + carry
       IN timesLimbs(Front(limbs), n, v \div Limb) \o <<v % Limb>>

\* x * n for a double x >= 0 and an integer 2 <= n < 2^12
multiply(x, n) ==
  IF x = Zero THEN Zero ELSE nearest(timesLimbs(x.n, n, 0), x.exp, FALSE)

RECURSIVE natural(_)
natural(limbs) ==
  IF limbs = <<>> THEN 0 ELSE natural(Front(limbs)) * Limb + limbs[Len(limbs)]

\* Math.round(x), the nearest integer with halves up: floor(x + 1/2), for a
\* double 0 <= x < 2^12 that has at least two digits below its binary point
MathRound(x) ==
  IF x = Zero THEN 0
  ELSE LET s == 0 - x.exp - 2 * LimbBits
       IN (natural(SubSeq(x.n, 1, Len(x.n) - 2)) + 2 ^ (s - 1)) \div (2 ^ s)

\* the summary TasksService.getProjectSummary returns
summary(projectId) ==
  LET totalTasks == Cardinality(tasksOf(projectId))
      doneTasks == countStatus(projectId, "done")
  IN [total |-> totalTasks,
      todo |-> countStatus(projectId, "todo"),
      inProgress |-> countStatus(projectId, "in_progress"),
      done |-> doneTasks,
      overdue |-> Cardinality({t \in tasksOf(projectId) :
                     /\ tasks[t].dueDate # NoDate
                     /\ tasks[t].dueDate < now
                     /\ tasks[t].status # "done"}),
      completionRate |-> IF totalTasks > 0 THEN MathRound(multiply(divide(doneTasks, totalTasks), 100))
                        ELSE 0]

\* GET /projects/:projectId/summary
TasksController_getProjectSummary(u, projectId) ==
  /\ UNCHANGED outside
  /\ LET res == TasksService_getProjectSummary(projectId, toString(ReqUserId(u)), role(u)) IN
     /\ last' = Response("summary", u, projectId, 0, res,
                         IF res = OK THEN summary(projectId) ELSE {})
     /\ UNCHANGED <<projects, tasks, nProjects, nTasks, now>>

\* TasksService.exportToCsv: the outcome of the access check
TasksService_exportToCsv(projectId, userId, userRole) ==
  projectAccess(projectId, userId, userRole)

\* `"${field}"`: the text between two quote characters, nothing escaped
quoted(text) == <<DQUOTE>> \o text \o <<DQUOTE>>

RECURSIVE join(_, _)
join(texts, sep) ==
  IF texts = <<>> THEN <<>>
  ELSE IF Len(texts) = 1 THEN texts[1]
  ELSE texts[1] \o <<sep>> \o join(Tail(texts), sep)

csvHeader ==
  <<"ID", COMMA, "Title", COMMA, "Status", COMMA, "Priority", COMMA, "Assignee",
    COMMA, "Due Date", COMMA, "Created At">>

\* one line of the export: the modelled fields of a task, each quoted
csvRow(id) ==
  LET task == tasks[id] IN
  join(<<quoted(<<ToString(id)>>),
         quoted(task.title),
         quoted(<<task.status>>),
         quoted(<<task.priority>>),
         quoted(IF task.assignee # NoUser THEN <<task.assignee>> ELSE <<>>),
         quoted(IF task.dueDate # NoDate THEN toISOString(task.dueDate) ELSE <<>>),
         quoted(toISOString(task.createdAt))>>, COMMA)

\* [header, ...rows].join('\n')
csvString(order) ==
  join(<<csvHeader>> \o [i \in 1..Len(order) |-> csvRow(order[i])], NEWLINE)

\* GET /projects/:projectId/tasks/export.csv
TasksController_exportTasks(u, projectId) ==
  /\ UNCHANGED outside
  /\ LET res == TasksService_exportToCsv(projectId, ReqUserId(u), role(u)) IN
     /\ IF res = OK
        THEN \E order \in sortByCreatedAtDesc(tasksOf(projectId)) :
               last' = Response("export", u, projectId, 0, res, csvString(order))
        ELSE last' = Response("export", u, projectId, 0, res, {})
     /\ UNCHANGED <<projects, tasks, nProjects, nTasks, now>>

\* the server clock advances
Tick ==
  /\ UNCHANGED outside
  /\ /\ now < MaxTime
     /\ now' = now + 1
     /\ UNCHANGED <<projects, tasks, nProjects, nTasks, last>>

(* --------------------------- specification ----------------------------- *)
Next ==
  \/ \E u \in Users : ProjectsController_create(u, CreateProjectDtos)
  \/ \E u \in Users : ProjectsController_findAll(u)
  \/ \E u \in Users, p \in PIDs : ProjectsController_findOne(u, p)
  \/ \E u \in Users, p \in PIDs : ProjectsController_update(u, p, UpdateProjectDtos)
  \/ \E u \in Users, p \in PIDs : ProjectsController_remove(u, p)
  \/ \E u \in Users, p \in PIDs : ProjectsController_addMembers(u, p, UserIdLists)
  \/ \E u \in Users, p \in PIDs : ProjectsService_removeMembers(u, p, UserIdLists)
  \/ \E u \in Users, p \in PIDs : TasksController_create(u, p, CreateTaskDtos, MaxTasks)
  \/ \E u \in Users, p \in PIDs : TasksController_findAll(u, p, {NoQuery})
  \/ \E u \in Users, t \in TIDs : TasksController_findOne(u, t)
  \/ \E u \in Users, t \in TIDs : TasksController_update(u, t, UpdateTaskDtos)
  \/ \E u \in Users, t \in TIDs : TasksController_remove(u, t)
  \/ \E u \in Users, p \in PIDs : TasksController_getProjectSummary(u, p)
  \/ \E u \in Users, p \in PIDs : TasksController_exportTasks(u, p)

Spec == Init /\ [][Next]_vars

(* ======================= properties of the claims ====================== *)
inMembers(u, p) == \E i \in 1..Len(projects[p].members) : projects[p].members[i] = u
ownsTaskIn(u, p) == \E t \in DOMAIN tasks : tasks[t].projectId = p /\ tasks[t].assignee = u

\* the requests addressed to a project, and those addressed to one of its tasks
ProjectRequests == {"getProject", "createTask", "listTasks", "summary", "export",
                    "updateProject", "deleteProject", "addMembers"}
TaskRequests == {"getTask", "updateTask", "deleteTask"}

\* the step serves request op of caller u on project p (or on a stored task of p)
Served(ops, u, p) ==
  /\ last'.op \in ops
  /\ last'.user = u
  /\ last'.pid = p
  /\ last'.op \in TaskRequests => last'.tid \in DOMAIN tasks

\* C1: a non-admin who is neither in the member list of an existing project nor
\* the assignee of one of its tasks gets forbidden on every request addressed to
\* the project or to one of its tasks.
C1_OutsiderForbidden ==
  [][\A u \in Users, p \in DOMAIN projects :
       (/\ role(u) # ADMIN
        /\ ~ inMembers(u, p)
        /\ ~ ownsTaskIn(u, p)
        /\ Served(ProjectRequests \cup TaskRequests, u, p))
       => last'.res = FORBIDDEN]_vars

\* C1 witness: a member who owns a task in another project was refused the task
\* list of a project they have no part in
C1_Witness ==
  /\ last.op = "listTasks"
  /\ last.res = FORBIDDEN
  /\ role(last.user) # ADMIN
  /\ last.pid \in DOMAIN projects
  /\ ~ inMembers(last.user, last.pid)
  /\ ~ ownsTaskIn(last.user, last.pid)
  /\ \E t \in DOMAIN tasks : tasks[t].assignee = last.user

\* C2: no request of an admin is refused with forbidden.
C2_AdminNeverForbidden ==
  role(last.user) = ADMIN => last.res # FORBIDDEN

\* C2 witness: an admin who is not a member of the project and not the assignee
\* updated a task of it
C2_Witness ==
  /\ last.op = "updateTask"
  /\ last.res = OK
  /\ role(last.user) = ADMIN
  /\ last.pid \in DOMAIN projects
  /\ ~ inMembers(last.user, last.pid)
  /\ tasks[last.tid].assignee \notin {last.user, NoUser}

\* C3 (as claimed): a non-admin who is in the member list of a project or owns a
\* task in it is not refused with forbidden when creating, listing, reading,
\* exporting its tasks or updating a task of it assigned to them.
C3_Original ==
  [][\A u \in Users, p \in DOMAIN projects :
       (/\ role(u) # ADMIN
        /\ inMembers(u, p) \/ ownsTaskIn(u, p)
        /\ Served({"createTask", "listTasks", "getTask", "updateTask", "export"}, u, p)
        /\ last'.op = "updateTask" => tasks[last'.tid].assignee = u)
       => last'.res # FORBIDDEN]_vars

\* C4 (as claimed): an update of a stored task by a non-admin who is not its
\* assignee is refused with forbidden and leaves the tasks unchanged, and an
\* update by a non-admin is applied only for the assignee.
C4_Original ==
  [][\A u \in Users, t \in DOMAIN tasks :
       (/\ role(u) # ADMIN
        /\ last'.op = "updateTask" /\ last'.user = u /\ last'.tid = t)
       => /\ last'.res = OK => tasks[t].assignee = u
          /\ tasks[t].assignee # u => (last'.res = FORBIDDEN /\ tasks' = tasks)]_vars

AdminOnlyRequests ==
  {"deleteTask", "deleteProject", "updateProject", "addMembers", "removeMembers"}

\* C5: delete task, delete project, update project, add members and remove
\* members requested by a non-admin end in forbidden and change no project and
\* no task.
C5_AdminOnly ==
  [][(last'.op \in AdminOnlyRequests /\ role(last'.user) # ADMIN)
       => (last'.res = FORBIDDEN /\ projects' = projects /\ tasks' = tasks)]_vars

\* C5 witness: a project member asked to remove members of their own project and
\* was refused
C5_Witness ==
  /\ last.op = "removeMembers"
  /\ role(last.user) # ADMIN
  /\ last.res = FORBIDDEN
  /\ last.pid \in DOMAIN projects
  /\ inMembers(last.user, last.pid)

\* C6 (as claimed): PATCH /tasks/:id by a non-admin who is in the member list of
\* the task's project and is the task's assignee succeeds and stores the fields
\* of the request.
C6_Original ==
  [][\A u \in Users, t \in DOMAIN tasks :
       (/\ role(u) # ADMIN
        /\ tasks[t].projectId \in DOMAIN projects
        /\ inMembers(u, tasks[t].projectId)
        /\ tasks[t].assignee = u
        /\ last'.op = "updateTask" /\ last'.user = u /\ last'.tid = t)
       => /\ last'.res = OK
          /\ \E dto \in UpdateTaskDtos : tasks' = [tasks EXCEPT ![t] = updatedTask(@, dto)]]_vars

\* C7 (as claimed): the CSV export of a project is not refused to a non-admin
\* who is in its member list, with or without a task assigned to them.
C7_Original ==
  (/\ last.op = "export"
   /\ role(last.user) # ADMIN
   /\ last.pid \in DOMAIN projects
   /\ inMembers(last.user, last.pid))
  => last.res # FORBIDDEN

\* C8: for a non-admin the summary of an existing project is granted exactly when
\* the caller is in the member list, and forbidden otherwise; an assignee outside
\* the member list is still granted the task list.
C8_SummaryMembersOnly ==
  (role(last.user) # ADMIN /\ last.pid \in DOMAIN projects) =>
    /\ last.op = "summary" =>
         /\ last.res = OK <=> inMembers(last.user, last.pid)
         /\ last.res # OK => last.res = FORBIDDEN
    /\ (last.op = "listTasks" /\ ownsTaskIn(last.user, last.pid)) => last.res = OK

\* C8 witness: the assignee of a task of the project, not in its member list, was
\* refused the summary
C8_Witness ==
  /\ last.op = "summary"
  /\ last.res = FORBIDDEN
  /\ role(last.user) # ADMIN
  /\ last.pid \in DOMAIN projects
  /\ ownsTaskIn(last.user, last.pid)
  /\ ~ inMembers(last.user, last.pid)

C10_Original ==
  [][\A p \in DOMAIN projects, ids \in UserIdLists :
       (/\ last.op = "createProject" /\ last.res = OK /\ last.pid = p
        /\ projects[p].members \in {<<>>, <<projects[p].createdBy>>}
        /\ Len(ids) = 2 /\ ids[1] # ids[2]
        /\ projects[p].createdBy \notin {ids[1], ids[2]}
        /\ last'.op = "addMembers" /\ last'.res = OK /\ last'.pid = p
        /\ projects'[p].members = addToSet(projects[p].members, ids))
       => /\ Len(projects'[p].members) = 3
          /\ \A x \in {projects[p].createdBy, ids[1], ids[2]} :
               \E i \in 1..3 : projects'[p].members[i] = x]_vars

(* ================== project keys: specification SpecKeys ================ *)
\* callers of the specifications below: the admin and one member
DataUsers == {"a1", "m1"}

ProjectKeys == {Key(1), Key(2)}
KeyedCreateProjectDtos == [key : ProjectKeys, members : {<<>>}]
KeyedUpdateProjectDtos ==
  [key : ProjectKeys \cup {Undefined, NullText}, hasMembers : {FALSE}, members : {<<>>}]

NextKeys ==
  \/ \E u \in DataUsers : ProjectsController_create(u, KeyedCreateProjectDtos)
  \/ \E u \in DataUsers, p \in PIDs : ProjectsController_findOne(u, p)
  \/ \E u \in DataUsers, p \in PIDs : ProjectsController_update(u, p, KeyedUpdateProjectDtos)
  \/ \E u \in DataUsers, p \in PIDs : ProjectsController_remove(u, p)

SpecKeys == Init /\ [][NextKeys]_vars

KeysDistinct ==
  \A p, q \in DOMAIN projects : p # q => projects[p].key # projects[q].key

\* a create or update request that is not served changes no project; one that
\* is served gives no project a key that another project held
KeyStep ==
  last'.op \in {"createProject", "updateProject"} =>
    /\ last'.res # OK => projects' = projects
    /\ last'.res = OK =>
         \A p \in DOMAIN projects' :
           (p \notin DOMAIN projects \/ projects'[p].key # projects[p].key)
             => \A q \in DOMAIN projects \ {p} : projects[q].key # projects'[p].key

\* C11: no two distinct projects have the same key; a project creation or update
\* that would give a project a key held by another project is rejected and
\* leaves every project unchanged.
C11_KeyUnique == []KeysDistinct /\ [][KeyStep]_vars

\* C11 witness: with two projects stored, an update that carried the key of the
\* other project was rejected
C11_Witness ==
  /\ last.op = "updateProject"
  /\ last.res = SERVER_ERROR
  /\ Cardinality(DOMAIN projects) = 2

(* ------------------- tasks and their project (Spec) --------------------- *)
TaskProjectExists ==
  \A t \in DOMAIN tasks : tasks[t].projectId \in DOMAIN projects

ProjectIdKept ==
  \A t \in DOMAIN tasks \cap DOMAIN tasks' : tasks'[t].projectId = tasks[t].projectId

\* C12 (as claimed): every stored task has a projectId that never changes and
\* that identifies a stored project.
C12_Original == []TaskProjectExists /\ [][ProjectIdKept]_vars

\* C13: a served project deletion removes the project document and nothing
\* else: the stored tasks and all their fields, those of the deleted project
\* included, are unchanged.
C13_DeleteKeepsTasks ==
  [][(last'.op = "deleteProject" /\ last'.res = OK)
       => (tasks' = tasks /\ projects' = Drop(projects, last'.pid))]_vars

\* C13 witness: a project was deleted and a task of it is still stored
C13_Witness ==
  /\ last.op = "deleteProject"
  /\ last.res = OK
  /\ last.pid \notin DOMAIN projects
  /\ \E t \in DOMAIN tasks : tasks[t].projectId = last.pid

\* C15 (as claimed): every request succeeds or fails as not-found, forbidden or
\* validation failure.
C15_Original == last.res \in {OK, NOT_FOUND, FORBIDDEN, BAD_REQUEST}

(* ============ status and priority: specification SpecEnums ============== *)
\* projects of the task specifications list the member as a project member
DataCreateProjectDtos == [key : {FreshKey}, members : {<<"m1">>}]

EnumCreateTaskDtos ==
  [title : {<<"a">>}, status : {Absent, "done", "archived"},
   priority : {Absent, "high"}, assignee : {Absent}, dueDate : {Undefined}]
EnumUpdateTaskDtos ==
  [title : {Undefined}, status : {Absent, "in_progress", "archived", Null},
   priority : {Absent, "low", "urgent", Null}, assignee : {Absent},
   dueDate : {Undefined}]

NextEnums ==
  \/ \E u \in DataUsers : ProjectsController_create(u, DataCreateProjectDtos)
  \/ \E u \in DataUsers, p \in PIDs : TasksController_create(u, p, EnumCreateTaskDtos, MaxTasks)
  \/ \E u \in DataUsers, t \in TIDs : TasksController_findOne(u, t)
  \/ \E u \in DataUsers, t \in TIDs : TasksController_update(u, t, EnumUpdateTaskDtos)
  \/ \E u \in DataUsers, t \in TIDs : TasksController_remove(u, t)

SpecEnums == Init /\ [][NextEnums]_vars

\* C14 (as claimed): every stored task has a status of TaskStatus and a priority
\* of TaskPriority, todo and medium when it was created without them.
C14_Original ==
  /\ \A t \in DOMAIN tasks :
       tasks[t].status \in TaskStatus /\ tasks[t].priority \in TaskPriority
  /\ (last.op = "createTask" /\ last.res = OK /\ last.tid \in DOMAIN tasks) =>
       \E dto \in EnumCreateTaskDtos :
         /\ tasks[last.tid].status = (IF dto.status = Absent THEN "todo" ELSE dto.status)
         /\ tasks[last.tid].priority =
              (IF dto.priority = Absent THEN "medium" ELSE dto.priority)

(* ================ pagination: specification SpecPage ==================== *)
PageCreateTaskDtos ==
  [title : {<<"a">>}, status : {Absent}, priority : {Absent}, assignee : {Absent},
   dueDate : {Undefined}]

\* page: absent, 0, 1, 2, -1, 1.5 and a text that is no number
PageTexts ==
  {Undefined, <<"0">>, <<"1">>, <<"2">>, <<"-", "1">>, <<"1", ".", "5">>, <<"x">>}
LimitTexts == {Undefined, <<"0">>, <<"1">>, <<"2">>}

PageQueries ==
  {[NoQuery EXCEPT !.page = p, !.limit = l] : p \in PageTexts, l \in LimitTexts}

PageTIDs == 1..MaxPageTasks

NextPage ==
  \/ \E u \in DataUsers : ProjectsController_create(u, DataCreateProjectDtos)
  \/ \E u \in DataUsers, p \in PIDs :
       TasksController_create(u, p, PageCreateTaskDtos, MaxPageTasks)
  \/ \E u \in DataUsers, p \in PIDs : TasksController_findAll(u, p, PageQueries)
  \/ \E u \in DataUsers, t \in PageTIDs : TasksController_remove(u, t)
  \/ Tick

SpecPage == Init /\ [][NextPage]_vars

Range(s) == {s[i] : i \in 1..Len(s)}
Min(a, b) == IF a < b THEN a ELSE b
Max(a, b) == IF a > b THEN a ELSE b

\* the stored tasks that match the filter of a served list request
Matching(r) == {t \in DOMAIN tasks : matches(tasks[t], r.pid, r.query)}

ListServed(r) == r.op = "listTasks" /\ r.res = OK

\* the number a numeric text asks for: <<n>> for an integer, <<>> for a text that
\* names no integer, the default when the parameter is omitted
Requested(text, dflt) ==
  IF text = Undefined THEN <<dflt>>
  ELSE LET body == IF Head(text) \in {"-", "+"} THEN Tail(text) ELSE text IN
       IF body # <<>> /\ allDigits(body)
       THEN <<IF Head(text) = "-" THEN 0 - decimal(0, body) ELSE decimal(0, body)>>
       ELSE <<>>

\* C16 (as claimed): a task-list request that passes validation and the access
\* check is served, and its pagination reports the requested page and limit (1
\* and 10 when omitted), the number T of matching tasks and ceil(T / limit)
\* pages.
C16_Original ==
  (/\ last.op = "listTasks"
   /\ ValidQueryTasksDto(last.query)
   /\ last.res \notin {NOT_FOUND, FORBIDDEN})
  => /\ last.res = OK
     /\ <<last.out.pagination.page>> = Requested(last.query.page, DefaultPage)
     /\ <<last.out.pagination.limit>> = Requested(last.query.limit, DefaultLimit)
     /\ last.out.pagination.total = Cardinality(Matching(last))
     /\ last.out.pagination.pages =
          ceil(last.out.pagination.total, last.out.pagination.limit)

\* the tasks of a served page are positions (p-1)*l+1 .. min(p*l, T) of the
\* matching tasks, newest first
PageSlice(r) ==
  LET p == r.out.pagination.page
      l == r.out.pagination.limit
      T == Cardinality(Matching(r))
  IN /\ Len(r.out.tasks) = Min(l, Max(0, T - (p - 1) * l))
     /\ \E order \in sortByCreatedAtDesc(Matching(r)) :
          r.out.tasks = SubSeq(order, (p - 1) * l + 1, Min(p * l, T))

sameFilter(q1, q2) ==
  [q1 EXCEPT !.page = Undefined, !.limit = Undefined]
    = [q2 EXCEPT !.page = Undefined, !.limit = Undefined]

\* two requests in a row for different pages of the same list return no task
\* twice, and together all matching tasks when the list has two pages
PagesPartition ==
  (/\ ListServed(last) /\ ListServed(last')
   /\ last'.pid = last.pid
   /\ sameFilter(last.query, last'.query)
   /\ last'.out.pagination.limit = last.out.pagination.limit
   /\ last'.out.pagination.page # last.out.pagination.page)
  => /\ Range(last.out.tasks) \cap Range(last'.out.tasks) = {}
     /\ (/\ last.out.pagination.pages = 2
         /\ {last.out.pagination.page, last'.out.pagination.page} = {1, 2})
        => Range(last.out.tasks) \cup Range(last'.out.tasks) = Matching(last)

\* C17 (as claimed): a served page holds the tasks at its positions of the
\* matching tasks ordered by creation time, newest first, and the pages
\* requested with no write in between return every matching task exactly once.
C17_Original == [](ListServed(last) => PageSlice(last)) /\ [][PagesPartition]_vars

(* ================= list filters: specification SpecFilter =============== *)
\* tasks are created plain or with priority high and assignee m1
FilterCreateTaskDtos ==
  [title : {<<"a">>}, status : {Absent, "done"}, priority : {Absent},
   assignee : {Absent}, dueDate : {Undefined, <<"1">>, <<"2">>}]
    \cup [title : {<<"a">>}, status : {Absent, "done"}, priority : {"high"},
          assignee : {"m1"}, dueDate : {Undefined, <<"1">>, <<"2">>}]

\* requests without q: the text index is not modelled
FilterQueries ==
  {[NoQuery EXCEPT !.status = s, !.priority = p, !.assignee = a,
                   !.dueFrom = f, !.dueTo = t] :
     s \in {Absent, "done"}, p \in {Absent, "high"}, a \in {Absent, "m1"},
     f \in {Undefined, <<"2">>}, t \in {Undefined, <<"1">>}}

DataTIDs == 1..MaxDataTasks

NextFilter ==
  \/ \E u \in DataUsers : ProjectsController_create(u, DataCreateProjectDtos)
  \/ \E u \in DataUsers, p \in PIDs :
       TasksController_create(u, p, FilterCreateTaskDtos, MaxDataTasks)
  \/ \E p \in PIDs : TasksController_findAll("a1", p, FilterQueries)

SpecFilter == Init /\ [][NextFilter]_vars

\* task t of project pid satisfies every filter the query supplies
Satisfies(t, pid, query) ==
  /\ tasks[t].projectId = pid
  /\ query.status # Absent => tasks[t].status = query.status
  /\ query.priority # Absent => tasks[t].priority = query.priority
  /\ query.assignee # Absent => tasks[t].assignee = query.assignee
  /\ query.dueFrom # Undefined =>
       (tasks[t].dueDate # NoDate /\ tasks[t].dueDate >= decimal(0, query.dueFrom))
  /\ query.dueTo # Undefined =>
       (tasks[t].dueDate # NoDate /\ tasks[t].dueDate <= decimal(0, query.dueTo))

CsvTitles ==
  {<<"a">>, <<"a", NEWLINE, "b">>, <<"a", DQUOTE, NEWLINE, DQUOTE, "b">>}

CsvCreateTaskDtos ==
  [title : CsvTitles, status : {Absent}, priority : {Absent}, assignee : {Absent},
   dueDate : {Undefined}]

NextCsv ==
  \/ \E u \in DataUsers : ProjectsController_create(u, DataCreateProjectDtos)
  \/ \E u \in DataUsers, p \in PIDs :
       TasksController_create(u, p, CsvCreateTaskDtos, MaxDataTasks)
  \/ \E u \in DataUsers, t \in DataTIDs : TasksController_remove(u, t)
  \/ \E u \in DataUsers, p \in PIDs : TasksController_exportTasks(u, p)

SpecCsv == Init /\ [][NextCsv]_vars

\* the number of records a CSV reader finds in a text: a line break ends a
\* record unless it stands inside a quoted field
RECURSIVE recordBreaks(_, _)
recordBreaks(text, inQuotes) ==
  IF text = <<>> THEN 0
  ELSE IF Head(text) = DQUOTE THEN recordBreaks(Tail(text), ~ inQuotes)
  ELSE IF Head(text) = NEWLINE /\ ~ inQuotes THEN 1 + recordBreaks(Tail(text), inQuotes)
  ELSE recordBreaks(Tail(text), inQuotes)

csvRecords(text) == 1 + recordBreaks(text, FALSE)

ExportServed(r) == r.op = "export" /\ r.res = OK

\* C19 (as claimed): a served export of project P is the header followed by one
\* row per stored task of P and no other row, so it reads as 1 + n records
\* where n is the number of tasks of P, the total of the summary of P.
C19_Original ==
  ExportServed(last) =>
    /\ \E order \in sortByCreatedAtDesc(tasksOf(last.pid)) :
         last.out = csvString(order)
    /\ SubSeq(last.out, 1, Len(csvHeader)) = csvHeader
    /\ csvRecords(last.out) = 1 + Cardinality(tasksOf(last.pid))
    /\ summary(last.pid).total = Cardinality(tasksOf(last.pid))

(* ================ project summary: specification SpecSummary ============ *)
\* tasks of the project the summary specification starts with
MaxRateTasks == 40

SummaryCreateTaskDtos ==
  [title : {<<"a">>}, status : {Absent, "in_progress", "done"}, priority : {Absent},
   assignee : {Absent}, dueDate : {Undefined, <<"1">>}]

\* the task the admin creates in project 1 with this status
seededTask(status) ==
  newTask(1, [title |-> <<"a">>, status |-> status, priority |-> Absent,
              assignee |-> Absent, dueDate |-> Undefined], IdString("a1"))

\* The admin has created project 1 and in it total tasks, done of them with
\* status done.
InitSummary ==
  \E total \in 0..MaxRateTasks, done \in 0..MaxRateTasks :
    /\ done <= total
    /\ now = 1
    /\ projects = Put(<<>>, 1, ProjectsService_create([key |-> Key(1), members |-> <<"m1">>],
                                                      ReqUserId("a1")))
    /\ nProjects = 1
    /\ tasks = [t \in 1..total |-> seededTask(IF t <= done THEN "done" ELSE Absent)]
    /\ nTasks = total
    /\ last = Response("init", "a1", 0, 0, OK, {})
    /\ users = SeedUsers
    /\ inflight = {}
    /\ alert = Unmounted
    /\ tasksPage = NotRendered

NextSummary ==
  \/ \E u \in DataUsers : ProjectsController_create(u, DataCreateProjectDtos)
  \/ \E u \in DataUsers, p \in PIDs :
       TasksController_create(u, p, SummaryCreateTaskDtos, MaxPageTasks)
  \/ \E u \in DataUsers, p \in PIDs : TasksController_getProjectSummary(u, p)
  \/ Tick

SpecSummary == InitSummary /\ [][NextSummary]_vars

\* r is a / b rounded to the nearest integer, halves up
Rounded(r, a, b) == (2 * r - 1) * b <= 2 * a /\ 2 * a < (2 * r + 1) * b

SummaryRight(r) ==
  LET P == tasksOf(r.pid)
      n(status) == Cardinality({t \in P : tasks[t].status = status})
  IN /\ r.out.total = Cardinality(P)
     /\ r.out.todo = n("todo")
     /\ r.out.inProgress = n("in_progress")
     /\ r.out.done = n("done")
     /\ r.out.overdue = Cardinality({t \in P : /\ tasks[t].dueDate # NoDate
                                                /\ tasks[t].dueDate < now
                                                /\ tasks[t].status # "done"})
     /\ r.out.completionRate \in 0..100
     /\ IF Cardinality(P) = 0 THEN r.out.completionRate = 0
        ELSE Rounded(r.out.completionRate, 100 * n("done"), Cardinality(P))

\* C20: a served summary of project P reports the number of P's tasks, the
\* number with each status, as overdue the number with a due date before the
\* current time and a status other than done, and as completionRate
\* round(100 * done / total), 0 for no task: an integer in 0..100.
C20_Original ==
  [][(last'.op = "summary" /\ last'.res = OK /\ now' = now /\ tasks' = tasks)
       => SummaryRight(last')]_vars

(* ================= registration: specification SpecAuth ================= *)
\* users ever registered, and registrations in progress at one time
MaxRegistered == 2
MaxInflight == 2

CONFLICT == "conflict"        \* ConflictException, 409

\* the _id of the n-th registered user
NewUserId(n) == "u" \o ToString(n)

RegisterEmails == {Email("m1"), Email("n1"), Email("n2")}

\* the body of POST /auth/register, with or without a role property
RegisterDtos == [email : RegisterEmails, role : {Absent, ADMIN}]

\* usersService.findByEmail(email)
findByEmail(email) == {u \in DOMAIN users : users[u].email = email}

\* mutant: the user collection without its unique index on email
duplicateEmail_noIndex(email) == FALSE

\* UserSchema.index({ email: 1 }, { unique: true }): the document is refused
duplicateEmail(email) == \E u \in DOMAIN users : users[u].email = email

\* the document AuthService.register hands to usersService.create:
\* { ...registerDto, passwordHash, role: UserRole.MEMBER }
registeredUser(dto) == [email |-> dto.email, role |-> MEMBER]

\* POST /auth/register up to its first awaited call, findByEmail: a stored
\* user with the e-mail ends the request with ConflictException
AuthService_register(dto) ==
  /\ IF findByEmail(dto.email) # {}
     THEN /\ last' = Response("register", NoUser, 0, 0, CONFLICT, dto.email)
          /\ UNCHANGED inflight
     ELSE /\ Cardinality(inflight) < MaxInflight
          /\ Cardinality(DOMAIN users \ Users) + Cardinality(inflight) < MaxRegistered
          /\ inflight' = inflight \cup
               {[op |-> "register", dto |-> dto,
                 n |-> CHOOSE n \in 1..MaxInflight : \A r \in inflight : r.n # n]}
          /\ UNCHANGED last
  /\ UNCHANGED <<projects, tasks, nProjects, nTasks, now, users, alert, tasksPage>>

\* the rest of the request: bcrypt.hash, then usersService.create saves the
\* document; a duplicate key error of the store is thrown on
AuthService_register_create(r) ==
  /\ r \in inflight
  /\ r.op = "register"
  /\ inflight' = inflight \ {r}
  /\ IF duplicateEmail(r.dto.email)
     THEN /\ last' = Response("register", NoUser, 0, 0, SERVER_ERROR, r.dto.email)
          /\ UNCHANGED users
     ELSE /\ users' = Put(users, NewUserId(Cardinality(DOMAIN users \ Users) + 1),
                          registeredUser(r.dto))
          /\ last' = Response("register", NoUser, 0, 0, OK, r.dto.email)
  /\ UNCHANGED <<projects, tasks, nProjects, nTasks, now, alert, tasksPage>>

NextAuth ==
  \/ \E dto \in RegisterDtos : AuthService_register(dto)
  \/ \E r \in inflight : AuthService_register_create(r)

SpecAuth == Init /\ [][NextAuth]_vars

EmailsDistinct ==
  \A u, v \in DOMAIN users : users[u].email = users[v].email => u = v

Admins == {u \in DOMAIN users : users[u].role = ADMIN}

RegisterStep ==
  /\ Admins' = Admins
  /\ \A u \in DOMAIN users : u \in DOMAIN users' /\ users'[u] = users[u]
  /\ users' # users =>
       /\ \E u \in DOMAIN users' \ DOMAIN users :
            /\ DOMAIN users' = DOMAIN users \cup {u}
            /\ users'[u].role = MEMBER
            /\ users'[u].email = last'.out
            /\ findByEmail(users'[u].email) = {}
       /\ last'.res = OK
  /\ \A r \in inflight' \ inflight : findByEmail(r.dto.email) = {}
  /\ (last' # last /\ last'.res \in {CONFLICT, SERVER_ERROR}) =>
       users' = users /\ findByEmail(last'.out) # {}
  /\ (last' # last /\ inflight' = inflight) =>
       last'.res = CONFLICT /\ findByEmail(last'.out) # {}

MaxRows == 2

\* The user object of useAuth: the auth response holds the identifier in id,
\* a populated user document holds it in _id (interface User).
AuthUser(u) == [id |-> u, _id |-> Absent, role |-> role(u)]
DocumentUser(u) == [id |-> Absent, _id |-> u, role |-> role(u)]
SignedInUsers == {AuthUser(u) : u \in Users} \cup {DocumentUser(u) : u \in Users}

\* the assignee of a listed task: NoUser for undefined, or the populated user
RowAssignees == Users \cup {NoUser}
TaskRows == UNION {[1..n -> RowAssignees] : n \in 0..MaxRows}

\* task.assignee?._id
assigneeId(assignee) == IF assignee = NoUser THEN Absent ELSE DocumentUser(assignee)._id

\* canEditTask: user?.role === 'admin' || task.assignee?._id === user?._id
canEditTask(user, assignee) ==
  user.role = ADMIN \/ assigneeId(assignee) = user._id

\* canDeleteTask
canDeleteTask(user) == user.role = ADMIN

\* the page is shown to the signed-in user, with no task loaded yet
Tasks_mount(user) ==
  /\ ~ tasksPage.rendered
  /\ tasksPage' = [rendered |-> TRUE, user |-> user, tasks |-> <<>>, edit |-> {}, delete |-> {}]
  /\ UNCHANGED <<projects, tasks, nProjects, nTasks, now, last, users, inflight, alert>>

\* fetchTasks: setTasks(response.tasks) and the table rows rendered from it;
\* edit holds the rows with the edit button and an enabled status selector
Tasks_fetchTasks(rows) ==
  /\ tasksPage.rendered
  /\ tasksPage' = [tasksPage EXCEPT
       !.tasks = rows,
       !.edit = {i \in DOMAIN rows : canEditTask(tasksPage.user, rows[i])},
       !.delete = {i \in DOMAIN rows : canDeleteTask(tasksPage.user)}]
  /\ UNCHANGED <<projects, tasks, nProjects, nTasks, now, last, users, inflight, alert>>

NextTasksPage ==
  \/ \E user \in SignedInUsers : Tasks_mount(user)
  \/ \E rows \in TaskRows : Tasks_fetchTasks(rows)

SpecTasksPage == Init /\ [][NextTasksPage]_vars

\* the user the signed-in user object stands for
signedIn(user) == IF user.id # Absent THEN user.id ELSE user._id

\* C22: a signed-in user who is no admin is offered the edit control of a
\* task only if the task is assigned to that user, whether the user object
\* holds the identifier in id or in _id.
C22_Original ==
  (tasksPage.rendered /\ tasksPage.user.role # ADMIN) =>
    \A i \in tasksPage.edit : tasksPage.tasks[i] = signedIn(tasksPage.user)

(* ============== refused requests: specification SpecRefusals ============ *)
\* bodies of task requests, some with a status outside the enumeration
RefusalCreateTaskDtos ==
  [title : {<<"a">>}, status : {Absent, "archived"}, priority : {Absent},
   assignee : {Absent, "m1"}, dueDate : {Undefined}]
RefusalUpdateTaskDtos ==
  [title : {Undefined}, status : {"in_progress", "archived"}, priority : {Absent},
   assignee : {Absent}, dueDate : {Undefined}]

\* the requests that write, and the reads of one project and of one task
NextRefusals ==
  \/ \E u \in DataUsers : ProjectsController_create(u, DataCreateProjectDtos)
  \/ \E u \in DataUsers, p \in PIDs : ProjectsController_findOne(u, p)
  \/ \E u \in DataUsers, p \in PIDs : ProjectsController_update(u, p, UpdateProjectDtos)
  \/ \E u \in DataUsers, p \in PIDs : ProjectsController_remove(u, p)
  \/ \E u \in DataUsers, p \in PIDs : ProjectsController_addMembers(u, p, UserIdLists)
  \/ \E u \in DataUsers, p \in PIDs : ProjectsService_removeMembers(u, p, UserIdLists)
  \/ \E u \in DataUsers, p \in PIDs :
       TasksController_create(u, p, RefusalCreateTaskDtos, MaxTasks)
  \/ \E u \in DataUsers, t \in TIDs : TasksController_findOne(u, t)
  \/ \E u \in DataUsers, t \in TIDs : TasksController_update(u, t, RefusalUpdateTaskDtos)
  \/ \E u \in DataUsers, t \in TIDs : TasksController_remove(u, t)

SpecRefusals == Init /\ [][NextRefusals]_vars

Refusals == {NOT_FOUND, FORBIDDEN, BAD_REQUEST}

\* C23: a project or task request that ends in not-found, forbidden or a
\* validation failure leaves the stored users, projects with their member
\* lists, and tasks as they were before the request.
C23_RefusedNothingWritten ==
  [][last'.res \in Refusals => (users' = users /\ projects' = projects /\ tasks' = tasks)]_vars

\* C23 witness: an update of a stored task by the admin was refused for its
\* body; before it other requests were refused as not found or forbidden
C23_Witness ==
  /\ last.op = "updateTask"
  /\ last.res = BAD_REQUEST
  /\ role(last.user) = ADMIN
  /\ last.tid \in DOMAIN tasks

(* ================= task update: specification SpecUpdate ================ *)
FrameCreateTaskDtos ==
  [title : {<<"a">>}, status : {Absent}, priority : {Absent},
   assignee : {Absent, "m1"}, dueDate : {Undefined, <<"1">>}]

\* bodies of PATCH /tasks/:id: every field absent or present, assignee and
\* dueDate also sent as null
FrameUpdateTaskDtos ==
  [title : {Undefined, <<"b">>}, status : {Absent, "done"}, priority : {Absent},
   assignee : {Absent, Null, "m2"}, dueDate : {Undefined, NullText, <<"2">>}]

NextUpdate ==
  \/ \E u \in DataUsers : ProjectsController_create(u, DataCreateProjectDtos)
  \/ \E u \in DataUsers, p \in PIDs :
       TasksController_create(u, p, FrameCreateTaskDtos, MaxDataTasks)
  \/ \E u \in DataUsers, t \in DataTIDs : TasksController_update(u, t, FrameUpdateTaskDtos)

SpecUpdate == Init /\ [][NextUpdate]_vars

\* the stored task new is old with the fields the body dto carries set to
\* what it carries, and every field it does not carry kept
OnlySentFields(old, new, dto) ==
  /\ new.title = IF dto.title = Undefined THEN old.title ELSE dto.title
  /\ new.status = IF dto.status = Absent THEN old.status ELSE dto.status
  /\ new.priority = IF dto.priority = Absent THEN old.priority ELSE dto.priority
  /\ dto.assignee \in {Absent, Null} => new.assignee = old.assignee
  /\ dto.assignee \notin {Absent, Null} => new.assignee = dto.assignee
  /\ dto.dueDate \in {Undefined, NullText} => new.dueDate = old.dueDate
  /\ dto.dueDate \notin {Undefined, NullText} => new.dueDate = Date(dto.dueDate)

UpdateFrame ==
  (last'.op = "updateTask" /\ last'.res = OK) =>
    LET id == last'.tid IN
    /\ DOMAIN tasks' = DOMAIN tasks
    /\ \A t \in DOMAIN tasks \ {id} : tasks'[t] = tasks[t]
    /\ tasks'[id].projectId = tasks[id].projectId
    /\ tasks'[id].createdAt = tasks[id].createdAt
    /\ tasks[id].assignee # NoUser => tasks'[id].assignee \notin {NoUser, Null}
    /\ tasks[id].dueDate # NoDate => tasks'[id].dueDate # NoDate
    /\ \E dto \in FrameUpdateTaskDtos : OnlySentFields(tasks[id], tasks'[id], dto)

MemberLists == {<<>>, <<"m1">>, <<"m1", "m1">>, <<"m2", "m2">>, <<"m2", "m1">>}

MemberCreateProjectDtos == [key : {FreshKey}, members : {<<>>, <<"m1">>, <<"m1", "m1">>}]

NextMembers ==
  \/ \E u \in DataUsers : ProjectsController_create(u, MemberCreateProjectDtos)
  \/ \E u \in DataUsers, p \in PIDs : ProjectsController_addMembers(u, p, MemberLists)
  \/ \E u \in DataUsers, p \in PIDs : ProjectsService_removeMembers(u, p, MemberLists)

SpecMembers == Init /\ [][NextMembers]_vars

listed(list) == {list[i] : i \in 1..Len(list)}

\* the users of ids that members does not hold, each once, in the order of
\* their first place in ids
newOnes(members, ids) ==
  SelectSeq([i \in 1..Len(ids) |->
               IF ids[i] \notin listed(members) /\ \A j \in 1..(i - 1) : ids[j] # ids[i]
               THEN ids[i] ELSE NoUser],
            LAMBDA x : x # NoUser)

\* members without every entry that names a user of ids
without(members, ids) == SelectSeq(members, LAMBDA m : m \notin listed(ids))

MembersStep ==
  \A p \in DOMAIN projects :
    /\ (last'.op = "addMembers" /\ last'.res = OK /\ last'.pid = p) =>
         \E ids \in MemberLists :
           LET after == projects'[p].members IN
           /\ after = projects[p].members \o newOnes(projects[p].members, ids)
           /\ listed(ids) \subseteq listed(after)
           /\ addToSet(after, ids) = after
           /\ listed(pull(after, ids)) \cap listed(ids) = {}
           /\ pull(after, ids) = without(projects[p].members, ids)
    /\ (last'.op = "removeMembers" /\ last'.res = OK /\ last'.pid = p) =>
         \E ids \in MemberLists : projects'[p].members = without(projects[p].members, ids)

LookupFirst ==
  {"getProject", "createTask", "listTasks", "summary", "export", "getTask", "updateTask"}

\* operations whose role check precedes the lookup
RoleFirst ==
  {"updateProject", "deleteProject", "addMembers", "removeMembers", "deleteTask"}

\* the target the request named did not exist when the request was served
missingTarget(r) ==
  IF r.op \in {"getTask", "updateTask", "deleteTask"}
  THEN r.tid \notin DOMAIN tasks
  ELSE r.pid \notin DOMAIN projects

CheckOrder ==
  LET r == last' IN
  /\ (r.op \in LookupFirst /\ missingTarget(r) /\ r.res # BAD_REQUEST) => r.res = NOT_FOUND
  /\ (r.op \in RoleFirst /\ role(r.user) # ADMIN) => r.res = FORBIDDEN
  /\ (r.op \in RoleFirst /\ r.res = NOT_FOUND) => role(r.user) = ADMIN /\ missingTarget(r)

\* C26: a request that passes validation and names a nonexistent target gets
\* not-found from get project, create task, list tasks, summary, export, get
\* task and update task whoever the caller is; update project, delete project,
\* add members, remove members and delete task answer a non-admin with
\* forbidden whether or not the target exists, and only an admin with not-found.
C26_CheckOrder == [][CheckOrder]_vars

\* C26 witness: a member of no project was told not-found by a lookup-first
\* operation
C26_Witness ==
  /\ last.op \in LookupFirst
  /\ last.user = "m2"
  /\ last.res = NOT_FOUND
  /\ projects = <<>>

(* ================ the task list and the read of one task =============== *)
\* the tasks a successful list response returned
returned(r) ==
  IF r.op = "listTasks" /\ r.res = OK
  THEN {r.out.tasks[i] : i \in 1..Len(r.out.tasks)} ELSE {}

\* a caller who was just given a task by the list reads it by its id
ListThenRead ==
  (/\ last'.op = "getTask"
   /\ last'.user = last.user
   /\ last'.tid \in returned(last)) => last'.res # FORBIDDEN

\* C27: a task that the project's task list returned to a caller is not
\* refused with forbidden when the same caller reads it by id with no write
\* in between.
C27_Original == [][ListThenRead]_vars

(* ==================== who changes a user's access ====================== *)
\* the user is granted the task list, the project read, the creation of a
\* task and the export of the project
granted(u, p) == projectAccess(p, toString(ReqUserId(u)), role(u)) = OK

NonAdmins == {u \in Users : role(u) # ADMIN}

\* the request of a non-admin leaves every non-admin's access as it was
AccessKept ==
  role(last'.user) # ADMIN =>
    \A u \in NonAdmins, p \in PIDs : granted(u, p)' = granted(u, p)

\* C28: whether a non-admin is granted or refused a project changes only by
\* an admin's operation; no operation of a non-admin changes any user's access.
C28_Original == [][AccessKept]_vars

(* ===== the summary's five count queries, one at a time: SpecSnapshot ===== *)
\* Promise.all([countDocuments(...) x 5]): the store answers each query on
\* its own, in any order, and serves other requests in between
\* summary requests in flight at a time
MaxSummaries == 1

SummaryQueries == {"total", "todo", "inProgress", "done", "overdue"}

\* the answer of one of the five queries; at is the handler's const now
countDocuments(projectId, q, at) ==
  CASE q = "total"      -> Cardinality(tasksOf(projectId))
    [] q = "todo"       -> countStatus(projectId, "todo")
    [] q = "inProgress" -> countStatus(projectId, "in_progress")
    [] q = "done"       -> countStatus(projectId, "done")
    [] q = "overdue"    -> Cardinality({t \in tasksOf(projectId) :
                             /\ tasks[t].dueDate # NoDate
                             /\ tasks[t].dueDate < at
                             /\ tasks[t].status # "done"})

\* the object getProjectSummary returns from the five answers
summaryOf(counts) ==
  [total |-> counts["total"],
   todo |-> counts["todo"],
   inProgress |-> counts["inProgress"],
   done |-> counts["done"],
   overdue |-> counts["overdue"],
   completionRate |-> IF counts["total"] > 0
                      THEN MathRound(multiply(divide(counts["done"], counts["total"]), 100))
                      ELSE 0]

\* GET /projects/:projectId/summary up to the await of Promise.all: the
\* lookup, the access check and const now
TasksService_getProjectSummary_start(u, projectId) ==
  /\ Cardinality(inflight) < MaxSummaries
  /\ LET res == TasksService_getProjectSummary(projectId, toString(ReqUserId(u)), role(u)) IN
     IF res = OK
     THEN /\ inflight' = inflight \cup
               {[op |-> "summary", user |-> u, pid |-> projectId, at |-> now,
                 counts |-> <<>>]}
          /\ last' = last
     ELSE /\ last' = Response("summary", u, projectId, 0, res, {})
          /\ inflight' = inflight
  /\ UNCHANGED <<projects, tasks, nProjects, nTasks, now, users, alert, tasksPage>>

\* the store answers one of the pending queries of a summary request
TasksService_getProjectSummary_countDocuments(r, q) ==
  /\ r \in inflight
  /\ r.op = "summary"
  /\ q \notin DOMAIN r.counts
  /\ inflight' = (inflight \ {r}) \cup
       {[r EXCEPT !.counts = Put(r.counts, q, countDocuments(r.pid, q, r.at))]}
  /\ UNCHANGED <<projects, tasks, nProjects, nTasks, now, last, users, alert, tasksPage>>

\* Promise.all resolves: the response is built from the five answers
TasksService_getProjectSummary_return(r) ==
  /\ r \in inflight
  /\ r.op = "summary"
  /\ DOMAIN r.counts = SummaryQueries
  /\ last' = Response("summary", r.user, r.pid, 0, OK, summaryOf(r.counts))
  /\ inflight' = inflight \ {r}
  /\ UNCHANGED <<projects, tasks, nProjects, nTasks, now, users, alert, tasksPage>>

SnapshotCreateTaskDtos ==
  [title : {<<"a">>}, status : {Absent}, priority : {Absent},
   assignee : {Absent}, dueDate : {Undefined, <<"1">>}]

SnapshotUpdateTaskDtos ==
  [title : {Undefined}, status : {"in_progress", "done"}, priority : {Absent},
   assignee : {Absent}, dueDate : {Undefined}]

SnapshotUsers == {"a1"}
SnapshotPIDs == {1}

NextSnapshot ==
  \/ \E u \in SnapshotUsers : ProjectsController_create(u, DataCreateProjectDtos)
  \/ \E u \in SnapshotUsers, p \in SnapshotPIDs :
       TasksController_create(u, p, SnapshotCreateTaskDtos, MaxTasks)
  \/ \E u \in SnapshotUsers, t \in TIDs :
       TasksController_update(u, t, SnapshotUpdateTaskDtos)
  \/ \E u \in SnapshotUsers, t \in TIDs : TasksController_remove(u, t)
  \/ \E u \in SnapshotUsers, p \in SnapshotPIDs : TasksService_getProjectSummary_start(u, p)
  \/ \E r \in inflight, q \in SummaryQueries :
       TasksService_getProjectSummary_countDocuments(r, q)
  \/ \E r \in inflight : TasksService_getProjectSummary_return(r)
  \/ Tick

SpecSnapshot == Init /\ [][NextSnapshot]_vars

\* C29: every summary response has total = todo + inProgress + done and
\* overdue <= total - done, also when creations, status updates and deletions
\* of tasks are served between the five count queries of the summary.
C29_Original ==
  (last.op = "summary" /\ last.res = OK) =>
    /\ last.out.total = last.out.todo + last.out.inProgress + last.out.done
    /\ last.out.overdue <= last.out.total - last.out.done


(* ==================== useAlert: specification SpecAlert ================ *)
\* showAlert and hideAlert calls made on a mounted hook
MaxCalls == 3

\* const { timeout = 5000, onClose } = options
DefaultTimeout == 5000
\* the step of the browser clock, in milliseconds
TimeUnit == 2500

\* options of the callers: no timeout (the default), no auto-dismiss, a short one
\* options.timeout left undefined
NoTimeout == 0 - 1
TimeoutOptions == {NoTimeout, 0, TimeUnit}
AlertMessages == {"", "a", "b"}

optionOrDefault(timeout) == IF timeout = NoTimeout THEN DefaultTimeout ELSE timeout

\* the effect's cleanup: clearTimeout of the timer this effect set, if it is
\* still pending (the last one of the pending timers)
cleanedUp(a) == IF a.armed THEN Front(a.timers) ELSE a.timers

\* useEffect(..., [message, timeout, hideAlert]) after a render in which one of
\* the three changed: the cleanup of the previous effect, then the effect
runEffect(a) ==
  IF a.message # "" /\ a.timeout > 0
  THEN [a EXCEPT !.timers = Append(cleanedUp(a), a.timeout), !.armed = TRUE]
  ELSE [a EXCEPT !.timers = cleanedUp(a), !.armed = FALSE]

\* a render after setMessage(msg): React skips it when the state is the same
setMessage(a, msg) ==
  IF msg = a.message THEN a ELSE runEffect([a EXCEPT !.message = msg])

\* hideAlert: setMessage('') and onClose?.()
hidden(a) ==
  [setMessage(a, "") EXCEPT !.closed = IF a.hasOnClose THEN @ + 1 ELSE @]

\* useAlert(initialMessage, options): the first render and its effect
useAlert(initialMessage, timeout, hasOnClose) ==
  /\ ~ alert.mounted
  /\ alert' = runEffect([mounted |-> TRUE, message |-> initialMessage,
                         timeout |-> optionOrDefault(timeout),
                         hasOnClose |-> hasOnClose,
                         timers |-> <<>>, armed |-> FALSE,
                         calls |-> 0, closed |-> 0])
  /\ UNCHANGED <<projects, tasks, nProjects, nTasks, now, last, users, inflight, tasksPage>>

\* showAlert(msg); closed counts the onClose calls since the last showAlert
showAlert(msg) ==
  /\ alert.mounted
  /\ alert.calls < MaxCalls
  /\ alert' = [setMessage(alert, msg) EXCEPT !.calls = @ + 1, !.closed = 0]
  /\ UNCHANGED <<projects, tasks, nProjects, nTasks, now, last, users, inflight, tasksPage>>

\* hideAlert() called by the component (the close button of the alert)
hideAlert ==
  /\ alert.mounted
  /\ alert.calls < MaxCalls
  /\ alert' = [hidden(alert) EXCEPT !.calls = @ + 1]
  /\ UNCHANGED <<projects, tasks, nProjects, nTasks, now, last, users, inflight, tasksPage>>

\* a pending timer is due: its callback calls hideAlert
setTimeout_callback(i) ==
  /\ alert.mounted
  /\ i \in 1..Len(alert.timers)
  /\ alert.timers[i] <= 0
  /\ LET fired == [alert EXCEPT
                     !.timers = SubSeq(@, 1, i - 1) \o SubSeq(@, i + 1, Len(@)),
                     !.armed = @ /\ i # Len(alert.timers)]
     IN alert' = hidden(fired)
  /\ UNCHANGED <<projects, tasks, nProjects, nTasks, now, last, users, inflight, tasksPage>>

\* the browser clock advances while no pending timer is due
elapse ==
  /\ alert.mounted
  /\ alert.timers # <<>>
  /\ \A i \in 1..Len(alert.timers) : alert.timers[i] > 0
  /\ alert' = [alert EXCEPT !.timers = [i \in 1..Len(@) |-> @[i] - TimeUnit]]
  /\ UNCHANGED <<projects, tasks, nProjects, nTasks, now, last, users, inflight, tasksPage>>

\* the component that uses the hook renders again with the same options; an
\* onClose written inline is a new function (fresh), so hideAlert is a new
\* function too and the effect runs again
rerender(fresh) ==
  /\ alert.mounted
  /\ alert' = IF fresh /\ alert.hasOnClose THEN runEffect(alert) ELSE alert
  /\ UNCHANGED <<projects, tasks, nProjects, nTasks, now, last, users, inflight, tasksPage>>

NextAlert ==
  \/ \E m \in {"", "a"}, t \in TimeoutOptions, c \in BOOLEAN : useAlert(m, t, c)
  \/ \E m \in AlertMessages : showAlert(m)
  \/ hideAlert
  \/ \E i \in 1..2 : setTimeout_callback(i)
  \/ elapse
  \/ \E fresh \in BOOLEAN : rerender(fresh)

\* time passes, and the browser runs the callback of a timer that is due
\* again and again
SpecAlert ==
  /\ Init
  /\ [][NextAlert]_vars
  /\ WF_vars(elapse)
  /\ SF_vars(\E i \in 1..2 : setTimeout_callback(i))

\* the n-th call on the hook was showAlert with a message, and none followed
shownByCall(n) ==
  alert.mounted /\ alert.calls = n /\ alert.message # "" /\ alert.timeout > 0

\* the alert is dismissed and onClose, if one was given, ran once
dismissed ==
  alert.mounted /\ alert.message = "" /\ (alert.hasOnClose => alert.closed = 1)

====
